---- MODULE Spec2Model ----
(***************************************************************************)
(* State-machine model of the voxel forest: ForestGenerator (placement     *)
(* sampler, population manager, collidable list, keyboard listeners and    *)
(* animation loop) and VoxelDog (character controller).                    *)
(*                                                                         *)
(* Lengths are integers in hundredths of a world unit (0.4 is 40, 0.02 is  *)
(* 2), so every constant of the source is exact.  A THREE.Vector2 is the   *)
(* record [x, y]; a placed Object3D is the record [kind, x, z] (its y is   *)
(* always 0).  Math.random() is a nondeterministic choice: the positions   *)
(* getRandomPosition may return are the points of a finite candidate set,  *)
(* the removal index is any index of the array.                            *)
(***************************************************************************)
EXTENDS Integers, Sequences, FiniteSets, TLC

VARIABLES
    forestElements,     \* ForestGenerator.forestElements: type -> sequence of elements
    settings,           \* ForestGenerator.settings: type -> target count
    scene,              \* the forest elements that are children of the THREE.Scene
    collidableObjects,  \* ForestGenerator.collidableObjects
    pc,                 \* position inside the running updateElementCount call
    elementType,        \* argument of the running updateElementCount call
    elements,           \* shrink branch: the local copy of the type's array
    removeCount,        \* shrink branch: currentCount - targetCount
    removeI,            \* shrink branch: loop variable i
    attemptsToAdd,      \* growth branch: attemptsToAdd
    pos,                \* growth branch: result of getFreePosition (<<>> is null)
    drawI,              \* getFreePosition: loop variable i
    draws,              \* history: getRandomPosition calls of the running getFreePosition
    lastDraw,           \* history: the last candidate drawn (<<>> before any draw)
    requests,           \* history: getFreePosition calls of the running updateElementCount
    added,              \* history: elements pushed by the running updateElementCount
    removed,            \* history: elements removed by the running updateElementCount
    pre,                \* history: forestElements when the running call started
    dogPos,             \* VoxelDog.object.position [x, y, z]
    velocity,           \* VoxelDog.velocity [y, z] (x is never set)
    isJumping,          \* VoxelDog.isJumping
    direction,          \* VoxelDog.direction in quarter turns, modulo 4
    blocked,            \* history: canMove was false in the last update
    ticksSinceMove,     \* history: updates since the last moveForward/moveBackward (2: two or more)
    isMovingForward,    \* ForestGenerator.isMovingForward
    isMovingBackward,   \* ForestGenerator.isMovingBackward
    focused,            \* document.activeElement === this.container
    held,               \* history: the forward/backward keys that are physically down
    seen,               \* history: the held keys whose key-down the listener processed
    issued,             \* history: the move request the running animate call issued
    obstacles           \* the obstacle list a caller of VoxelDog.update passes on every tick

forestVars == <<forestElements, settings, scene, collidableObjects>>
callVars == <<pc, elementType, elements, removeCount, removeI, attemptsToAdd,
              pos, drawI, draws, lastDraw, requests, added, removed, pre>>
dogVars == <<dogPos, velocity, isJumping, direction, blocked, ticksSinceMove>>
keyVars == <<isMovingForward, isMovingBackward, focused, held, seen, issued>>
vars == <<forestVars, callVars, dogVars, keyVars, obstacles>>

----------------------------------------------------------------------------
(* Element types, footprints and the sampler's geometry                     *)

Types == {"trees", "rocks", "bushes", "flowers", "grassPatches"}

\* Upper end of every slider in the model (the GUI ranges are 0..50, 0..30, ...).
MaxSetting == 3

\* The sliders the user moves: two collidable types and one that is not, with
\* three different footprints.
Sliders == {"trees", "rocks", "flowers"}

\* The points getRandomPosition can return: two points 2.5 units apart (two
\* rocks there touch, a rock and a flower fit, a tree excludes everything) and
\* one far away from both.
CandidatePoints ==
    { [x |-> 600, y |-> 0], [x |-> 600, y |-> 250], [x |-> -1200, y |-> 900] }

maxRadius == 2400

\* getRandomPosition: a point at distance radius < maxRadius from the origin.
getRandomPosition(points) ==
    { p \in points : p.x * p.x + p.y * p.y < maxRadius * maxRadius }

Candidates == getRandomPosition(CandidatePoints)
safeZoneRadius == 500
dogClearance == 300
padding == 50
samplerMaxAttempts == 50
maxAttempts == 100

getElementSize(type) ==
    CASE type = "trees"        -> [x |-> 300, y |-> 600, z |-> 300]
      [] type = "rocks"        -> [x |-> 150, y |-> 120, z |-> 150]
      [] type = "bushes"       -> [x |-> 200, y |-> 200, z |-> 200]
      [] type = "flowers"      -> [x |-> 50,  y |-> 100, z |-> 50]
      [] type = "grassPatches" -> [x |-> 50,  y |-> 75,  z |-> 50]
      [] OTHER                 -> [x |-> 100, y |-> 100, z |-> 100]

\* THREE.Box3.intersectsBox: closed boxes, touching faces intersect.
intersectsBox(a, b) ==
    ~ (\/ b.maxx < a.minx \/ b.minx > a.maxx
       \/ b.maxy < a.miny \/ b.miny > a.maxy
       \/ b.maxz < a.minz \/ b.minz > a.maxz)

\* The padded box isPositionOccupied builds around ground point (x, z).
paddedBox(type, x, z) ==
    LET size == getElementSize(type) IN
    [minx |-> x - (size.x \div 2) - padding, maxx |-> x + (size.x \div 2) + padding,
     miny |-> 0,                             maxy |-> size.y,
     minz |-> z - (size.z \div 2) - padding, maxz |-> z + (size.z \div 2) + padding]

\* Mutant: the collision loop scans only the arrays of the new element's own type.
scannedTypes_ownTypeOnly(type) == {type}

\* The element types whose arrays the collision loop of isPositionOccupied scans.
scannedTypes(type) == Types

\* Mutant: only the box scan, neither the safe zone nor the dog is looked at.
isPositionOccupied_boxesOnly(position, type) ==
    \E t \in Types :
       \E k \in 1..Len(forestElements[t]) :
          intersectsBox(paddedBox(type, position.x, position.y),
                        paddedBox(t, forestElements[t][k].x, forestElements[t][k].z))

isPositionOccupied(position, type) ==
    \/ position.x * position.x + position.y * position.y
           < safeZoneRadius * safeZoneRadius
    \/ (dogPos.x - position.x) * (dogPos.x - position.x)
         + (dogPos.z - position.y) * (dogPos.z - position.y)
           < dogClearance * dogClearance
    \/ \E t \in scannedTypes(type) :
         \E k \in 1..Len(forestElements[t]) :
            intersectsBox(paddedBox(type, position.x, position.y),
                          paddedBox(t, forestElements[t][k].x, forestElements[t][k].z))

\* Mutant: the sampler's loop runs while i <= maxAttempts.
samplerLoopCond_offByOne(i) == i <= samplerMaxAttempts

\* for (let i = 0; i < maxAttempts; i++)
samplerLoopCond(i) == i < samplerMaxAttempts

\* Mutant: the growth loop runs while length <= targetCount.
growLoopCond_overshoot(length, targetCount, attempts) ==
    length <= targetCount /\ attempts < maxAttempts

\* Mutant: the growth loop has no cap on the elements it adds.
growLoopCond_noCap(length, targetCount, attempts) ==
    length < targetCount

\* while (length < targetCount && attemptsToAdd < maxAttempts)
growLoopCond(length, targetCount, attempts) ==
    length < targetCount /\ attempts < maxAttempts

\* Mutant: the rebuild forgets the rocks.
updateCollidableObjects_treesOnly(fe) == fe["trees"]

\* this.collidableObjects = [...trees, ...rocks]
updateCollidableObjects(fe) == fe["trees"] \o fe["rocks"]

isCollidableType(type) == type \in {"trees", "rocks"}

\* array.filter(el => el !== e)
filterOut(s, e) == SelectSeq(s, LAMBDA el : el # e)

\* Mutant: the local copy is not shortened, so an element can be picked twice.
splice_none(s, index) == s

\* array.splice(index, 1), index counted from 1
splice(s, index) == SubSeq(s, 1, index - 1) \o SubSeq(s, index + 1, Len(s))

\* Mutant: the removal loop forgets scene.remove.
sceneRemove_forgotten(sc, e) == sc

\* scene.remove(e) in the removal loop
sceneRemove(sc, e) == sc \ {e}

Range(s) == { s[k] : k \in 1..Len(s) }

----------------------------------------------------------------------------
(* Initial state: every array empty, every slider at 0 (the state the       *)
(* program is in once the user has dragged every slider to 0), the dog at   *)
(* its start position, grounded, no key down, the container not focused.    *)

groundHeight == 40

\* The program after construction.
InitProgram ==
    /\ forestElements = [t \in Types |-> <<>>]
    /\ settings = [t \in Types |-> 0]
    /\ scene = {}
    /\ collidableObjects = <<>>
    /\ pc = "idle"
    /\ elementType = "trees"
    /\ elements = <<>>
    /\ removeCount = 0
    /\ removeI = 0
    /\ attemptsToAdd = 0
    /\ pos = <<>>
    /\ drawI = 0
    /\ draws = 0
    /\ lastDraw = <<>>
    /\ requests = 0
    /\ added = <<>>
    /\ removed = <<>>
    /\ pre = [t \in Types |-> <<>>]
    /\ dogPos = [x |-> 0, y |-> groundHeight, z |-> 0]
    /\ velocity = [y |-> 0, z |-> 0]
    /\ isJumping = FALSE
    /\ direction = 0
    /\ blocked = FALSE
    /\ ticksSinceMove = 2
    /\ isMovingForward = FALSE
    /\ isMovingBackward = FALSE
    /\ focused = FALSE
    /\ held = {}
    /\ seen = {}
    /\ issued = "none"

Init == InitProgram /\ obstacles = <<>>

----------------------------------------------------------------------------
(* updateElementCount, one action per step of the handler                   *)

\* Entry of updateElementCount(type): the count comparison and the branch taken.
updateElementCount(type, targetCount) ==
    LET currentCount == Len(forestElements[type]) IN
    /\ elementType' = type
    /\ pre' = forestElements
    /\ requests' = 0
    /\ added' = <<>>
    /\ removed' = <<>>
    /\ pos' = <<>>
    /\ drawI' = 0
    /\ draws' = 0
    /\ lastDraw' = <<>>
    /\ attemptsToAdd' = 0
    /\ IF currentCount = targetCount
       THEN /\ pc' = "done"
            /\ UNCHANGED <<elements, removeCount, removeI>>
       ELSE IF currentCount > targetCount
       THEN /\ pc' = "remove"
            /\ removeCount' = currentCount - targetCount
            /\ elements' = forestElements[type]
            /\ removeI' = 0
       ELSE /\ pc' = "grow"
            /\ UNCHANGED <<elements, removeCount, removeI>>
    /\ UNCHANGED <<forestElements, scene, collidableObjects>>

\* A slider's onChange: dat.GUI has stored the new value, then the handler runs.
OnChange(type, value) ==
    /\ pc = "idle"
    /\ settings' = [settings EXCEPT ![type] = value]
    /\ updateElementCount(type, value)
    /\ UNCHANGED <<dogVars, keyVars, obstacles>>

\* One iteration of the removal loop.
RemoveRandom(randomIndex) ==
    /\ pc = "remove"
    /\ removeI < removeCount
    /\ randomIndex \in 1..Len(elements)
    /\ LET elementToRemove == elements[randomIndex] IN
       /\ scene' = sceneRemove(scene, elementToRemove)
       /\ elements' = splice(elements, randomIndex)
       /\ forestElements' = [forestElements EXCEPT
              ![elementType] = filterOut(@, elementToRemove)]
       /\ removed' = Append(removed, elementToRemove)
    /\ removeI' = removeI + 1
    /\ UNCHANGED <<settings, collidableObjects, pc, elementType, removeCount,
                   attemptsToAdd, pos, drawI, draws, lastDraw, requests, added, pre>>
    /\ UNCHANGED <<dogVars, keyVars, obstacles>>

\* The removal loop is over: the collidable list is rebuilt.
RemoveDone ==
    /\ pc = "remove"
    /\ ~ (removeI < removeCount)
    /\ collidableObjects' = updateCollidableObjects(forestElements)
    /\ pc' = "done"
    /\ UNCHANGED <<forestElements, settings, scene, elementType, elements,
                   removeCount, removeI, attemptsToAdd, pos, drawI, draws,
                   lastDraw, requests, added, removed, pre>>
    /\ UNCHANGED <<dogVars, keyVars, obstacles>>

\* The growth loop's condition holds: getFreePosition is called.
GrowRequest ==
    /\ pc = "grow"
    /\ growLoopCond(Len(forestElements[elementType]), settings[elementType],
                    attemptsToAdd)
    /\ pc' = "sample"
    /\ drawI' = 0
    /\ draws' = 0
    /\ lastDraw' = <<>>
    /\ pos' = <<>>
    /\ requests' = requests + 1
    /\ UNCHANGED <<forestVars, elementType, elements, removeCount, removeI,
                   attemptsToAdd, added, removed, pre>>
    /\ UNCHANGED <<dogVars, keyVars, obstacles>>

\* The growth loop's condition fails: the loop ends.
GrowExit ==
    /\ pc = "grow"
    /\ ~ growLoopCond(Len(forestElements[elementType]), settings[elementType],
                      attemptsToAdd)
    /\ pc' = "done"
    /\ UNCHANGED <<forestVars, elementType, elements, removeCount, removeI,
                   attemptsToAdd, pos, drawI, draws, lastDraw, requests, added,
                   removed, pre>>
    /\ UNCHANGED <<dogVars, keyVars, obstacles>>

\* One iteration of getFreePosition's loop with candidate `position`.
Draw(position) ==
    /\ pc = "sample"
    /\ samplerLoopCond(drawI)
    /\ draws' = draws + 1
    /\ lastDraw' = <<position>>
    /\ IF ~ isPositionOccupied(position, elementType)
       THEN /\ pos' = <<position>>
            /\ pc' = "got"
            /\ drawI' = drawI
       ELSE /\ drawI' = drawI + 1
            /\ UNCHANGED <<pos, pc>>
    /\ UNCHANGED <<forestVars, elementType, elements, removeCount, removeI,
                   attemptsToAdd, requests, added, removed, pre>>
    /\ UNCHANGED <<dogVars, keyVars, obstacles>>

\* getFreePosition's loop ran out: return null.
DrawExhausted ==
    /\ pc = "sample"
    /\ ~ samplerLoopCond(drawI)
    /\ pos' = <<>>
    /\ pc' = "got"
    /\ UNCHANGED <<forestVars, elementType, elements, removeCount, removeI,
                   attemptsToAdd, drawI, draws, lastDraw, requests, added,
                   removed, pre>>
    /\ UNCHANGED <<dogVars, keyVars, obstacles>>

\* Mutant: on null the growth loop continues with its next iteration.
afterNull_continue == "grow"

\* Where the growth loop goes when getFreePosition returned null.
afterNull == "done"

\* pos === null: console.warn and break.
GrowCrowded ==
    /\ pc = "got"
    /\ pos = <<>>
    /\ pc' = afterNull
    /\ UNCHANGED <<forestVars, elementType, elements, removeCount, removeI,
                   attemptsToAdd, pos, drawI, draws, lastDraw, requests, added,
                   removed, pre>>
    /\ UNCHANGED <<dogVars, keyVars, obstacles>>

\* The collidable list after the type switch of the growth loop.
pushCollidable(list, type, element) ==
    IF isCollidableType(type) THEN Append(list, element) ELSE list

\* A position was found: create the element, position it, add it.
Place ==
    /\ pc = "got"
    /\ pos # <<>>
    /\ LET element == [kind |-> elementType, x |-> pos[1].x, z |-> pos[1].y] IN
       /\ collidableObjects' = pushCollidable(collidableObjects, elementType, element)
       /\ scene' = scene \cup {element}
       /\ forestElements' = [forestElements EXCEPT ![elementType] = Append(@, element)]
       /\ added' = Append(added, element)
    /\ attemptsToAdd' = attemptsToAdd + 1
    /\ pc' = "grow"
    /\ UNCHANGED <<settings, elementType, elements, removeCount, removeI,
                   pos, drawI, draws, lastDraw, requests, removed, pre>>
    /\ UNCHANGED <<dogVars, keyVars, obstacles>>

\* updateElementCount returns; its locals are dead.
Return ==
    /\ pc = "done"
    /\ pc' = "idle"
    /\ elementType' = "trees"
    /\ elements' = <<>>
    /\ removeCount' = 0
    /\ removeI' = 0
    /\ attemptsToAdd' = 0
    /\ pos' = <<>>
    /\ drawI' = 0
    /\ draws' = 0
    /\ lastDraw' = <<>>
    /\ requests' = 0
    /\ added' = <<>>
    /\ removed' = <<>>
    /\ pre' = [t \in Types |-> <<>>]
    /\ UNCHANGED forestVars
    /\ UNCHANGED <<dogVars, keyVars, obstacles>>

CallStep ==
    \/ \E randomIndex \in 1..Len(elements) : RemoveRandom(randomIndex)
    \/ RemoveDone
    \/ GrowRequest
    \/ GrowExit
    \/ \E position \in Candidates : Draw(position)
    \/ DrawExhausted
    \/ GrowCrowded
    \/ Place
    \/ Return

Next ==
    \/ \E type \in Sliders, value \in 0..MaxSetting : OnChange(type, value)
    \/ CallStep

Spec == Init /\ [][Next]_vars

----------------------------------------------------------------------------
(* Properties of the population manager and the sampler (under Spec)        *)

\* Every tracked element as a pair <<type, index>>.
Tracked == UNION { { <<t, k>> : k \in 1..Len(forestElements[t]) } : t \in Types }

\* Twice the padded half-width of a type's footprint along x and along z.
FootprintX(t) == getElementSize(t).x + 2 * padding
FootprintZ(t) == getElementSize(t).z + 2 * padding

Abs(n) == IF n < 0 THEN 0 - n ELSE n

\* The padded footprints of type t1 at (x1, z1) and type t2 at (x2, z2) share a point.
FootprintsMeet(t1, x1, z1, t2, x2, z2) ==
    /\ 2 * Abs(x1 - x2) <= FootprintX(t1) + FootprintX(t2)
    /\ 2 * Abs(z1 - z2) <= FootprintZ(t1) + FootprintZ(t2)

\* C1: in every reachable state no two tracked elements, of any types, have
\* intersecting padded footprints (nominal width and depth enlarged by 0.5 on
\* every side, centred on the element), and a position the sampler has accepted
\* meets the padded footprint of no tracked element.
C1_NoOverlap ==
    /\ \A a \in Tracked, b \in Tracked :
          a # b =>
             ~ FootprintsMeet(a[1], forestElements[a[1]][a[2]].x, forestElements[a[1]][a[2]].z,
                              b[1], forestElements[b[1]][b[2]].x, forestElements[b[1]][b[2]].z)
    /\ (pc = "got" /\ pos # <<>>) =>
          \A b \in Tracked :
             ~ FootprintsMeet(elementType, pos[1].x, pos[1].y,
                              b[1], forestElements[b[1]][b[2]].x, forestElements[b[1]][b[2]].z)

\* A position was accepted after at least one candidate was rejected, next to
\* a tracked element of another type 2.5 units away.
C1_Witness ==
    /\ pc = "got" /\ pos # <<>> /\ drawI > 0
    /\ \E b \in Tracked :
          /\ b[1] # elementType
          /\ forestElements[b[1]][b[2]].x = pos[1].x
          /\ Abs(forestElements[b[1]][b[2]].z - pos[1].y) = 250

NoDuplicates(s) == \A i \in 1..Len(s), j \in 1..Len(s) : s[i] = s[j] => i = j

\* C2: when an updateElementCount call has completed, collidableObjects holds
\* every tracked tree and every tracked rock exactly once and nothing else: no
\* removed element, no bush, flower or grass patch.
C2_CollidableExact ==
    pc \in {"done", "idle"} =>
       /\ Range(collidableObjects) =
             Range(forestElements["trees"]) \cup Range(forestElements["rocks"])
       /\ Len(collidableObjects) =
             Len(forestElements["trees"]) + Len(forestElements["rocks"])
       /\ NoDuplicates(collidableObjects)
       /\ \A e \in Range(collidableObjects) :
             e.kind \in {"trees", "rocks"} /\ e \notin Range(removed)

\* A shrink has just rebuilt the list while a tree and a rock are tracked.
C2_Witness ==
    /\ pc = "done" /\ removed # <<>>
    /\ Len(forestElements["trees"]) = 1 /\ Len(forestElements["rocks"]) = 1
    /\ Len(collidableObjects) = 2

\* The running call is a growth whose sampler came back empty-handed.
StoppedOnNull == requests > 0 /\ pos = <<>>
\* The running call is a growth that used up its cap.
StoppedOnCap == attemptsToAdd >= maxAttempts

\* C3: when updateElementCount(type) returns, the type's tracked count does not
\* exceed settings[type], and it equals settings[type] unless the call was a
\* growth stopped by a null from the sampler or by the growth cap.
C3_CountAtMostTarget ==
    pc = "done" =>
       /\ Len(forestElements[elementType]) <= settings[elementType]
       /\ Len(forestElements[elementType]) < settings[elementType] =>
             /\ Len(pre[elementType]) < settings[elementType]
             /\ StoppedOnNull \/ StoppedOnCap

\* A growth returns short of its target after adding an element.
C3_Witness ==
    /\ pc = "done" /\ added # <<>>
    /\ Len(forestElements[elementType]) < settings[elementType]

\* The sequence s without the elements of the sequence gone.
Without(s, gone) == SelectSeq(s, LAMBDA el : el \notin Range(gone))

\* C4: a call with N tracked elements and a setting M, 0 <= M < N, ends with
\* exactly M: N - M distinct elements are removed, the survivors are the other
\* elements of the array in their order, nothing is added, the other types are
\* untouched; and at every iteration each element still tracked can be the one
\* removed, whatever its place in the array.
C4_ShrinkExact ==
    /\ (pc = "done" /\ Len(pre[elementType]) > settings[elementType]) =>
          /\ Len(forestElements[elementType]) = settings[elementType]
          /\ Len(removed) = Len(pre[elementType]) - settings[elementType]
          /\ NoDuplicates(removed)
          /\ Range(removed) \subseteq Range(pre[elementType])
          /\ forestElements[elementType] = Without(pre[elementType], removed)
          /\ added = <<>>
          /\ \A t \in Types \ {elementType} : forestElements[t] = pre[t]
    /\ (pc = "remove" /\ removeI < removeCount) =>
          /\ elements = forestElements[elementType]
          /\ \A k \in 1..Len(forestElements[elementType]) : ENABLED RemoveRandom(k)

\* A shrink from 3 to 1 that removed the element inserted last, then the one
\* inserted first, and kept the middle one.
C4_Witness ==
    /\ pc = "done" /\ Len(pre[elementType]) = 3 /\ settings[elementType] = 1
    /\ removed = <<pre[elementType][3], pre[elementType][1]>>
    /\ forestElements[elementType] = <<pre[elementType][2]>>

\* All tracked elements, of every type.
AllTracked == UNION { Range(forestElements[t]) : t \in Types }

\* C5: when an updateElementCount call has completed (also one whose growth
\* stopped early), an element is in the scene iff it is in forestElements of
\* its type.
C5_SceneAgrees ==
    pc \in {"done", "idle"} =>
       /\ scene = AllTracked
       /\ \A t \in Types : \A e \in Range(forestElements[t]) : e.kind = t

\* A growth that stopped on a null after adding an element has completed.
C5_Witness == pc = "done" /\ StoppedOnNull /\ added # <<>>

\* C6: getFreePosition returns the first candidate isPositionOccupied accepts,
\* drawing nothing after it (all earlier draws were rejected); when every
\* candidate is rejected it returns null after exactly 50 draws.
C6_SamplerExact ==
    /\ pc = "sample" => draws = drawI /\ drawI <= samplerMaxAttempts
    /\ (pc = "got" /\ pos # <<>>) =>
          /\ pos = lastDraw
          /\ ~ isPositionOccupied(pos[1], elementType)
          /\ draws = drawI + 1
          /\ draws <= 50
    /\ (pc = "got" /\ pos = <<>>) => draws = 50 /\ lastDraw # <<>>

\* The sampler has returned null.
C6_Witness == pc = "got" /\ pos = <<>> /\ draws = 50

\* C7: the step that handles a null from getFreePosition ends the growth: the
\* call is complete, nothing is requested, added or removed by it, the type's
\* array is what it was at the call plus the elements added before the null,
\* and the other types' arrays are what they were; a completed call only returns.
C7_NullStopsGrowth ==
    [][ /\ (pc = "got" /\ pos = <<>>) =>
              /\ pc' = "done"
              /\ UNCHANGED <<forestVars, requests, added, removed>>
              /\ forestElements[elementType] = pre[elementType] \o added
              /\ \A t \in Types \ {elementType} : forestElements[t] = pre[t]
        /\ pc = "done" => pc' = "idle" /\ UNCHANGED forestVars
      ]_vars

\* A growth stopped by a null on its second request, after adding one element.
C7_Witness == pc = "done" /\ pos = <<>> /\ requests = 2 /\ Len(added) = 1

----------------------------------------------------------------------------
(* The growth cap.  It binds only when the target is more than maxAttempts  *)
(* above the count, so updateElementCount is called here with a target the  *)
(* sliders' ranges (at most 0..100) do not reach.  Each draw returns the    *)
(* next point of a grid of free places, 2 units apart.                      *)

\* The target the grass-patch setting is given.
CapTarget == 101

\* The k-th place of the grid: 6 columns, 18 rows, all inside the sampling
\* disk and outside the safe zone.
LanePoint(k) ==
    [x |-> 600 + 200 * ((k - 1) % 6),
     y |-> 200 * ((k - 1) \div 6) - 1700]

\* The point the next draw returns: the first grid point not yet taken.
LaneDraws ==
    getRandomPosition({ LanePoint(Len(forestElements["grassPatches"]) + 1) })

CapCallStep ==
    \/ GrowRequest
    \/ GrowExit
    \/ \E position \in LaneDraws : Draw(position)
    \/ Place
    \/ Return

CapNext ==
    \/ OnChange("grassPatches", CapTarget)
    \/ CapCallStep

\* A handler runs to completion: a started call keeps taking its steps.
CapSpec == Init /\ [][CapNext]_vars /\ WF_vars(CapCallStep)

\* C8: every updateElementCount call terminates, and one growth makes at most
\* 100 requests to the sampler and adds at most 100 elements, however far the
\* target is above the count.
C8_GrowthBounded ==
    /\ [](requests <= 100 /\ Len(added) <= 100 /\ attemptsToAdd <= 100)
    /\ (pc # "idle") ~> (pc = "idle")

\* A growth has ended on the cap, 100 elements added, short of its target.
C8_Witness ==
    /\ pc = "done" /\ requests = 100 /\ Len(added) = 100
    /\ Len(forestElements[elementType]) < settings[elementType]

----------------------------------------------------------------------------
(* VoxelDog: the character controller                                       *)

speed == 20
jumpForce == 50
gravity == 2

\* Extents of the dog's geometry around its origin: half the body width, the
\* top of the head, the tip of the nose and the tip of the (tilted) tail.
dogHalfWidth == 50
dogHeight == 130
dogFront == 110
dogBack == 121

\* Math.sin and Math.cos of the heading, which is a whole number of quarter turns.
sinQ(d) == CASE d = 0 -> 0 [] d = 1 -> 1 [] d = 2 -> 0 [] OTHER -> -1
cosQ(d) == CASE d = 0 -> 1 [] d = 1 -> 0 [] d = 2 -> -1 [] OTHER -> 0

\* new THREE.Box3().setFromObject(this.object): the geometry turned by the
\* heading and moved to the position p.
dogBox(p, d) ==
    LET right == IF d = 0 \/ d = 2 THEN dogHalfWidth ELSE IF d = 1 THEN dogFront ELSE dogBack
        left  == IF d = 0 \/ d = 2 THEN dogHalfWidth ELSE IF d = 1 THEN dogBack ELSE dogFront
        ahead == IF d = 1 \/ d = 3 THEN dogHalfWidth ELSE IF d = 0 THEN dogFront ELSE dogBack
        behind == IF d = 1 \/ d = 3 THEN dogHalfWidth ELSE IF d = 0 THEN dogBack ELSE dogFront
    IN  [minx |-> p.x - left,   maxx |-> p.x + right,
         miny |-> p.y,          maxy |-> p.y + dogHeight,
         minz |-> p.z - behind, maxz |-> p.z + ahead]

\* box.min.add(movement); box.max.add(movement)
translateBox(b, m) ==
    [minx |-> b.minx + m.x, maxx |-> b.maxx + m.x,
     miny |-> b.miny + m.y, maxy |-> b.maxy + m.y,
     minz |-> b.minz + m.z, maxz |-> b.maxz + m.z]

\* new THREE.Box3().setFromObject(collider) for an obstacle [kind, x, z, size]
\* standing at height 0 with heading 0: a rock is size x 0.8 size x size
\* around its position, a tree a trunk of height size under 3 x 3 x 3 leaves.
colliderBox(c) ==
    IF c.kind = "rocks"
    THEN [minx |-> c.x - c.size \div 2, maxx |-> c.x + c.size \div 2,
          miny |-> 0 - (c.size * 4) \div 10, maxy |-> (c.size * 4) \div 10,
          minz |-> c.z - c.size \div 2, maxz |-> c.z + c.size \div 2]
    ELSE [minx |-> c.x - 150, maxx |-> c.x + 150,
          miny |-> 0,         maxy |-> c.size + 200,
          minz |-> c.z - 150, maxz |-> c.z + 150]

\* The gravity branch of update is taken (else the landing branch).
inAir == dogPos.y > groundHeight \/ velocity.y > 0

\* Mutant: the landing branch leaves the vertical velocity as it is.
settledVelocityY_keptOnLanding == IF inAir THEN velocity.y - gravity ELSE velocity.y

\* Mutant: the landing branch does not set the height.
settledPos_noClamp == dogPos

\* velocity.y and position after the first if/else of update.
settledVelocityY == IF inAir THEN velocity.y - gravity ELSE 0
settledPos == IF inAir THEN dogPos ELSE [dogPos EXCEPT !.y = groundHeight]

\* The tick's candidate displacement.
movement ==
    [x |-> sinQ(direction) * velocity.z,
     y |-> settledVelocityY,
     z |-> cosQ(direction) * velocity.z]

nextBoundingBox == translateBox(dogBox(settledPos, direction), movement)

\* The collision loop of update: canMove.
canMove(colliders) ==
    ~ \E k \in 1..Len(colliders) :
          intersectsBox(nextBoundingBox, colliderBox(colliders[k]))

\* The position update leaves behind.
positionAfter(colliders) ==
    IF canMove(colliders)
    THEN [x |-> settledPos.x + movement.x,
          y |-> settledPos.y + movement.y,
          z |-> settledPos.z + movement.z]
    ELSE settledPos

\* Mutant: update does not reset the planar speed request.
resetVelocity_never(v) == v

\* this.velocity.set(0, this.velocity.y, 0)
resetVelocity(v) == [y |-> v.y, z |-> 0]

\* VoxelDog.update(colliders)
update(colliders) ==
    /\ dogPos' = positionAfter(colliders)
    /\ velocity' = resetVelocity([y |-> settledVelocityY, z |-> velocity.z])
    /\ isJumping' = inAir
    /\ blocked' = ~ canMove(colliders)
    /\ ticksSinceMove' = IF ticksSinceMove < 2 THEN ticksSinceMove + 1 ELSE 2
    /\ UNCHANGED direction

\* Mutant: jump() does not test isJumping.
canJump_always == TRUE

\* if (!this.isJumping)
canJump == ~ isJumping

\* VoxelDog.jump()
jump ==
    IF canJump
    THEN /\ velocity' = [velocity EXCEPT !.y = jumpForce]
         /\ isJumping' = TRUE
    ELSE UNCHANGED <<velocity, isJumping>>

\* VoxelDog.moveForward()
moveForward ==
    /\ velocity' = [velocity EXCEPT !.z = speed]
    /\ ticksSinceMove' = 0

\* VoxelDog.moveBackward()
moveBackward ==
    /\ velocity' = [velocity EXCEPT !.z = 0 - speed]
    /\ ticksSinceMove' = 0

\* VoxelDog.turnLeft()
turnLeft == direction' = (direction + 1) % 4

\* VoxelDog.turnRight()
turnRight == direction' = (direction + 3) % 4

\* The methods called on their own, between two handlers of the program.
Update(colliders) ==
    /\ pc = "idle"
    /\ update(colliders)
    /\ UNCHANGED <<forestVars, callVars, keyVars, obstacles>>

Jump ==
    /\ pc = "idle"
    /\ jump
    /\ UNCHANGED <<dogPos, direction, blocked, ticksSinceMove>>
    /\ UNCHANGED <<forestVars, callVars, keyVars, obstacles>>

MoveForward ==
    /\ pc = "idle"
    /\ moveForward
    /\ UNCHANGED <<dogPos, isJumping, direction, blocked>>
    /\ UNCHANGED <<forestVars, callVars, keyVars, obstacles>>

MoveBackward ==
    /\ pc = "idle"
    /\ moveBackward
    /\ UNCHANGED <<dogPos, isJumping, direction, blocked>>
    /\ UNCHANGED <<forestVars, callVars, keyVars, obstacles>>

TurnLeft ==
    /\ pc = "idle"
    /\ turnLeft
    /\ UNCHANGED <<dogPos, velocity, isJumping, blocked, ticksSinceMove>>
    /\ UNCHANGED <<forestVars, callVars, keyVars, obstacles>>

TurnRight ==
    /\ pc = "idle"
    /\ turnRight
    /\ UNCHANGED <<dogPos, velocity, isJumping, blocked, ticksSinceMove>>
    /\ UNCHANGED <<forestVars, callVars, keyVars, obstacles>>

----------------------------------------------------------------------------
(* The character controller on its own: any call order, any obstacle list.  *)

\* The dog stays within MaxWalk steps of its start position on either axis.
MaxWalk == 1
\* Below this vertical velocity only the empty obstacle list is offered.
MaxFall == 60

\* A rock of size 1.5 whose near face the standing dog's nose touches after
\* one step forward, and a tree far behind the dog.
ObstacleRock == [kind |-> "rocks", x |-> 0, z |-> 205, size |-> 150]
ObstacleTree == [kind |-> "trees", x |-> 0, z |-> -600, size |-> 300]
ObstacleLists == { <<>>, <<ObstacleRock>>, <<ObstacleTree, ObstacleRock>> }

InArena(colliders) ==
    LET p == positionAfter(colliders) IN
    /\ p.x >= 0 - MaxWalk * speed /\ p.x <= MaxWalk * speed
    /\ p.z >= 0 - MaxWalk * speed /\ p.z <= MaxWalk * speed

DogNext ==
    \/ Jump
    \/ MoveForward
    \/ MoveBackward
    \/ TurnLeft
    \/ TurnRight
    \/ \E colliders \in ObstacleLists :
          /\ InArena(colliders)
          /\ velocity.y > 0 - MaxFall \/ colliders = <<>>
          /\ Update(colliders)

DogSpec == Init /\ [][DogNext]_vars

\* C9: jump() called while isJumping is false sets isJumping and sets the
\* vertical velocity to jumpForce, a positive impulse, and nothing else; called
\* while isJumping is true it changes nothing.
C9_JumpOnlyWhenGrounded ==
    [][ Jump =>
           IF ~ isJumping
           THEN /\ isJumping' = TRUE
                /\ velocity'.y = jumpForce /\ jumpForce > 0
                /\ velocity'.z = velocity.z
                /\ UNCHANGED <<dogPos, direction>>
           ELSE UNCHANGED <<dogPos, velocity, isJumping, direction>>
      ]_vars

\* The dog has just jumped from the ground; no update has run since.
C9_Witness ==
    isJumping /\ velocity.y = jumpForce /\ dogPos.y = groundHeight

\* C10: an update whose translated bounding box intersects an obstacle's box
\* leaves the position (x, y and z) exactly as it was before the update.
C10_BlockedKeepsPosition ==
    [][ \A colliders \in ObstacleLists :
           (Update(colliders) /\ ~ canMove(colliders)) => dogPos' = dogPos
      ]_vars

\* What does hold of a blocked update: none of the displacement is applied; x
\* and z are kept, and so is y unless the landing branch has set it to the
\* ground height.
C10_BlockedAppliesNoDisplacement ==
    [][ \A colliders \in ObstacleLists :
           (Update(colliders) /\ ~ canMove(colliders)) =>
              /\ dogPos'.x = dogPos.x /\ dogPos'.z = dogPos.z
              /\ dogPos'.y = IF inAir THEN dogPos.y ELSE groundHeight
      ]_vars

\* C11: a move request is one-shot.  Every update leaves the planar speed
\* request at zero, whether its movement was applied or blocked, and leaves the
\* vertical velocity at the value the gravity step gave it; jump and the turns
\* do not touch the request; so an update with no move call since the update
\* before it produces no horizontal displacement.
C11_MoveIsOneShot ==
    [][ /\ \A colliders \in ObstacleLists :
              Update(colliders) =>
                 /\ velocity'.z = 0
                 /\ velocity'.y = settledVelocityY
                 /\ ticksSinceMove >= 1 =>
                       dogPos'.x = dogPos.x /\ dogPos'.z = dogPos.z
        /\ (Jump \/ TurnLeft \/ TurnRight) => velocity'.z = velocity.z
        /\ ticksSinceMove >= 1 => velocity.z = 0
      ]_vars

\* moveForward() and two updates: the dog is one step ahead of its start, not
\* two, and the request is gone.
C11_Witness ==
    /\ ticksSinceMove = 2 /\ dogPos.z = speed /\ dogPos.x = 0
    /\ direction = 0 /\ velocity.z = 0 /\ ~ blocked

----------------------------------------------------------------------------
(* The dog walking while the rock slider is moved: movement calls and       *)
(* updateElementCount calls in any order.  The dog walks along the z axis   *)
(* towards one of the places the sampler draws.                             *)

\* The dog walks at most this many steps ahead of its start position.
RoamWalk == 20

\* The points getRandomPosition can return here: one inside the safe zone, one
\* 6 units ahead of the dog's start position, one far from both.
RoamPoints ==
    { [x |-> 0, y |-> 300], [x |-> 0, y |-> 600], [x |-> -1200, y |-> 900] }

RoamCandidates == getRandomPosition(RoamPoints)

\* The obstacle a tracked tree or rock is for the dog.  Its size is one value
\* of the range Math.random() gives it when it is created (a rock 0.5 to 2, a
\* trunk 3 to 6).
obstacleOf(e) ==
    [kind |-> e.kind, x |-> e.x, z |-> e.z,
     size |-> IF e.kind = "rocks" THEN 150 ELSE 300]

obstaclesOf(list) == [k \in 1..Len(list) |-> obstacleOf(list[k])]

RoamCallStep ==
    \/ \E randomIndex \in 1..Len(elements) : RemoveRandom(randomIndex)
    \/ RemoveDone
    \/ GrowRequest
    \/ GrowExit
    \/ \E position \in RoamCandidates : Draw(position)
    \/ DrawExhausted
    \/ GrowCrowded
    \/ Place
    \/ Return

RoamNext ==
    \/ \E value \in 0..MaxSetting : OnChange("rocks", value)
    \/ RoamCallStep
    \/ dogPos.z + speed <= RoamWalk * speed /\ MoveForward
    \/ dogPos.z - speed >= 0 /\ MoveBackward
    \/ Update(obstaclesOf(collidableObjects))

RoamSpec == Init /\ [][RoamNext]_vars

\* The ground point (x, z) is at least d away from the ground point (px, pz).
AtLeastAway(x, z, px, pz, d) ==
    (x - px) * (x - px) + (z - pz) * (z - pz) >= d * d

\* C12: a position getFreePosition returns is at least 5 units from the world
\* origin and at least 3 units from the dog's ground position (x, z) at the
\* time of the call; the dog does not move while updateElementCount runs, so
\* every element the call adds is that far from both when it is placed, and
\* every tracked element is at least 5 units from the origin.
C12_ClearOfOriginAndDog ==
    /\ (pc = "got" /\ pos # <<>>) =>
          /\ AtLeastAway(pos[1].x, pos[1].y, 0, 0, 500)
          /\ AtLeastAway(pos[1].x, pos[1].y, dogPos.x, dogPos.z, 300)
    /\ \A e \in Range(added) :
          /\ AtLeastAway(e.x, e.z, 0, 0, 500)
          /\ AtLeastAway(e.x, e.z, dogPos.x, dogPos.z, 300)
    /\ \A e \in AllTracked : AtLeastAway(e.x, e.z, 0, 0, 500)

\* The sampler has returned a position after rejecting a candidate, in an
\* empty forest, while the dog stands 2 units from the place ahead of it.
C12_Witness ==
    /\ pc = "got" /\ pos # <<>> /\ drawI > 0
    /\ AllTracked = {}
    /\ dogPos.x = 0 /\ dogPos.z = 400

----------------------------------------------------------------------------
(* Keyboard and animation loop.  The forest is empty; the user clicks the   *)
(* container or elsewhere, presses and releases keys, and the browser runs  *)
(* animate once per frame.  animate is two steps, the move request and the  *)
(* update, with no other handler between them.                              *)

Keys == {"ArrowUp", "ArrowDown", "ArrowLeft", "ArrowRight", "Space"}

\* The keys the keyup listener has a case for.
HoldKeys == {"ArrowUp", "ArrowDown"}

\* The locals of updateElementCount, which no keyboard or frame handler touches.
callLocals == <<elementType, elements, removeCount, removeI, attemptsToAdd,
                pos, drawI, draws, lastDraw, requests, added, removed, pre>>

\* if (this.isMovingForward) moveForward() else if (this.isMovingBackward) moveBackward()
moveIfHeld ==
    IF isMovingForward THEN moveForward
    ELSE IF isMovingBackward THEN moveBackward
    ELSE UNCHANGED <<velocity, ticksSinceMove>>

\* The container's click listener: this.container.focus().
Click ==
    /\ pc = "idle"
    /\ ~ focused
    /\ focused' = TRUE
    /\ UNCHANGED <<isMovingForward, isMovingBackward, held, seen, issued>>
    /\ UNCHANGED <<forestVars, callVars, dogVars, obstacles>>

\* The user clicks outside the container: it is no longer document.activeElement.
Blur ==
    /\ pc = "idle"
    /\ focused
    /\ focused' = FALSE
    /\ UNCHANGED <<isMovingForward, isMovingBackward, held, seen, issued>>
    /\ UNCHANGED <<forestVars, callVars, dogVars, obstacles>>

\* The document's keydown listener.
onKeyDown(code) ==
    IF ~ focused
    THEN UNCHANGED <<dogVars, isMovingForward, isMovingBackward>>
    ELSE IF code = "ArrowUp"
    THEN /\ isMovingForward' = TRUE
         /\ isMovingBackward' = FALSE
         /\ UNCHANGED dogVars
    ELSE IF code = "ArrowDown"
    THEN /\ isMovingBackward' = TRUE
         /\ isMovingForward' = FALSE
         /\ UNCHANGED dogVars
    ELSE IF code = "ArrowLeft"
    THEN /\ turnLeft
         /\ moveIfHeld
         /\ UNCHANGED <<dogPos, isJumping, blocked, isMovingForward, isMovingBackward>>
    ELSE IF code = "ArrowRight"
    THEN /\ turnRight
         /\ moveIfHeld
         /\ UNCHANGED <<dogPos, isJumping, blocked, isMovingForward, isMovingBackward>>
    ELSE /\ jump
         /\ UNCHANGED <<dogPos, direction, blocked, ticksSinceMove,
                        isMovingForward, isMovingBackward>>

\* The document's keyup listener.
onKeyUp(code) ==
    IF ~ focused
    THEN UNCHANGED <<isMovingForward, isMovingBackward>>
    ELSE IF code = "ArrowUp"
    THEN isMovingForward' = FALSE /\ UNCHANGED isMovingBackward
    ELSE IF code = "ArrowDown"
    THEN isMovingBackward' = FALSE /\ UNCHANGED isMovingForward
    ELSE UNCHANGED <<isMovingForward, isMovingBackward>>

\* The user presses a key that is up.
KeyDown(code) ==
    /\ pc = "idle"
    /\ code \notin held
    /\ onKeyDown(code)
    /\ held' = IF code \in HoldKeys THEN held \cup {code} ELSE held
    /\ seen' = IF focused /\ code \in HoldKeys THEN seen \cup {code} ELSE seen
    /\ UNCHANGED <<focused, issued>>
    /\ UNCHANGED <<forestVars, callVars, obstacles>>

\* The user releases a key that is down.
KeyUp(code) ==
    /\ pc = "idle"
    /\ code \in held
    /\ onKeyUp(code)
    /\ held' = held \ {code}
    /\ seen' = seen \ {code}
    /\ UNCHANGED <<focused, issued>>
    /\ UNCHANGED <<forestVars, callVars, dogVars, obstacles>>

\* The planar request the dog has once animate has looked at the two flags.
requestedZ ==
    IF isMovingForward THEN speed
    ELSE IF isMovingBackward THEN 0 - speed
    ELSE velocity.z

\* The frame's planar displacement keeps the dog within MaxWalk steps of its
\* start position.
StaysInArena ==
    /\ dogPos.x + sinQ(direction) * requestedZ >= 0 - MaxWalk * speed
    /\ dogPos.x + sinQ(direction) * requestedZ <= MaxWalk * speed
    /\ dogPos.z + cosQ(direction) * requestedZ >= 0 - MaxWalk * speed
    /\ dogPos.z + cosQ(direction) * requestedZ <= MaxWalk * speed

\* animate, first half: the move request for a held key.
AnimateMove ==
    /\ pc = "idle"
    /\ StaysInArena
    /\ pc' = "frame"
    /\ moveIfHeld
    /\ issued' = IF isMovingForward THEN "forward"
                 ELSE IF isMovingBackward THEN "backward" ELSE "none"
    /\ UNCHANGED <<dogPos, isJumping, direction, blocked>>
    /\ UNCHANGED <<isMovingForward, isMovingBackward, focused, held, seen>>
    /\ UNCHANGED <<forestVars, callLocals, obstacles>>

\* animate, second half: this.dog.update(this.collidableObjects).
AnimateUpdate ==
    /\ pc = "frame"
    /\ update(obstaclesOf(collidableObjects))
    /\ pc' = "idle"
    /\ issued' = "none"
    /\ UNCHANGED <<isMovingForward, isMovingBackward, focused, held, seen>>
    /\ UNCHANGED <<forestVars, callLocals, obstacles>>

KeyNext ==
    \/ Click
    \/ Blur
    \/ \E code \in Keys : KeyDown(code)
    \/ \E code \in HoldKeys : KeyUp(code)
    \/ AnimateMove
    \/ AnimateUpdate

KeySpec == Init /\ [][KeyNext]_vars

\* C13: hold semantics of the forward and backward keys.  In every frame
\* between the key-down of ArrowUp (ArrowDown) that the listener processed and
\* the key-up of that key, animate issues moveForward() (moveBackward()) before
\* dog.update; and in a frame in which that key is up, animate does not issue
\* it; whatever other keys go down and up in between.
C13_HoldReissuesEveryTick ==
    pc = "frame" =>
       /\ "ArrowUp" \in seen => issued = "forward"
       /\ "ArrowDown" \in seen => issued = "backward"
       /\ "ArrowUp" \notin held => issued # "forward"
       /\ "ArrowDown" \notin held => issued # "backward"

----------------------------------------------------------------------------
(* The character controller called with one obstacle list on every tick:    *)
(* jump, move and turn calls in any order, update again and again.          *)

LandInit == InitProgram /\ obstacles \in ObstacleLists

\* With heading d and planar request vz the next update keeps the dog within
\* MaxWalk steps of its start position.
PendingStays(d, vz) ==
    /\ dogPos.x + sinQ(d) * vz >= 0 - MaxWalk * speed
    /\ dogPos.x + sinQ(d) * vz <= MaxWalk * speed
    /\ dogPos.z + cosQ(d) * vz >= 0 - MaxWalk * speed
    /\ dogPos.z + cosQ(d) * vz <= MaxWalk * speed

LandNext ==
    \/ Jump
    \/ PendingStays(direction, speed) /\ MoveForward
    \/ PendingStays(direction, 0 - speed) /\ MoveBackward
    \/ PendingStays((direction + 1) % 4, velocity.z) /\ TurnLeft
    \/ PendingStays((direction + 3) % 4, velocity.z) /\ TurnRight
    \/ Update(obstacles)

\* update is called on every tick.
LandSpec == LandInit /\ [][LandNext]_vars /\ WF_vars(Update(obstacles))

\* C14: landing.  An update that finds the dog at or below the ground height
\* with a vertical velocity that is not positive leaves it at the ground
\* height, with vertical velocity zero and isJumping false; and with update
\* called on every tick with one obstacle list, whatever move and turn calls
\* come in between, a dog that is in the air is eventually grounded again, at
\* exactly the ground height with vertical velocity zero.
C14_JumpLands ==
    /\ [][ (Update(obstacles) /\ dogPos.y <= groundHeight /\ velocity.y <= 0) =>
              /\ dogPos'.y = groundHeight
              /\ velocity'.y = 0
              /\ ~ isJumping'
         ]_vars
    /\ isJumping ~> (~ isJumping /\ dogPos.y = groundHeight /\ velocity.y = 0)

\* The dog stands on the ground one step ahead of its start, its nose at the
\* rock's face.  On the ground every step there is blocked by the rock, so the
\* dog has jumped, moved in the air and landed.
C14_Witness ==
    /\ ~ isJumping /\ dogPos.y = groundHeight /\ velocity.y = 0
    /\ dogPos.x = 0 /\ dogPos.z = speed /\ direction = 0
    /\ obstacles # <<>>

----------------------------------------------------------------------------
(* Invariants of the character controller (under DogSpec: any call order,   *)
(* an obstacle list that may change from one update to the next)            *)

\* C15: whenever the dog is grounded (isJumping false) its height is the
\* ground height 0.4 and its vertical velocity is zero.
C15_GroundedAtRest ==
    ~ isJumping => dogPos.y = groundHeight /\ velocity.y = 0

\* The dog is grounded in front of the rock, one step ahead of its start: it
\* came there through the air, and the update that landed it was blocked.
C15_Witness ==
    /\ ~ isJumping /\ blocked
    /\ dogPos.x = 0 /\ dogPos.z = speed /\ direction = 0

\* C16: after every update the dog's height is at least the ground height 0.4.
C16_NeverBelowGround == dogPos.y >= groundHeight

====
